---------------------------- MODULE Spec2Model ----------------------------
(***************************************************************************)
(* Projection and optimal-expense engine of the Bitcoin retirement         *)
(* calculator (src/src/components/BitcoinRetirementCalculator.jsx).        *)
(*                                                                         *)
(* JavaScript numbers are modelled as exact rationals [n, d] in lowest     *)
(* terms with d > 0; the results of dividing by zero are the records with  *)
(* d = 0 (NaN, Infinity, -Infinity).  Math.round is modelled by what it    *)
(* does (round half up to an integer; NaN and the infinities unchanged).  The input values are chosen so that every           *)
(* intermediate numerator and denominator stays below 2^31; on these       *)
(* inputs the exact results and the IEEE double results of the source      *)
(* coincide in every emitted field.                                        *)
(*                                                                         *)
(* Spec runs the render (useMemo schedule) and the calculation effect for  *)
(* one input record, one loop iteration per step.  SpecSchedule runs       *)
(* generateGrowthRates alone over longer horizons.  SpecInvalid runs the   *)
(* same steps on input records outside the documented ranges.              *)
(***************************************************************************)
EXTENDS Integers, Sequences, FiniteSets, TLC

(***************************************************************************)
(* Bounds of the model.                                                    *)
(***************************************************************************)
MaxYears == 3
MaxScheduleYears == 20

(***************************************************************************)
(* JavaScript number arithmetic on exact rationals.                        *)
(***************************************************************************)
Abs(x) == IF x < 0 THEN -x ELSE x

RECURSIVE GCD(_, _)
GCD(a, b) == IF b = 0 THEN a ELSE GCD(b, a % b)

Rat(n, d) == LET g == GCD(Abs(n), d) IN [n |-> n \div g, d |-> d \div g]

Num(k) == [n |-> k, d |-> 1]

RNeg(a) == [n |-> -a.n, d |-> a.d]

RAdd(a, b) ==
  LET g  == GCD(a.d, b.d)
      m1 == b.d \div g
      m2 == a.d \div g
  IN  Rat(a.n * m1 + b.n * m2, a.d * m1)

RSub(a, b) == RAdd(a, RNeg(b))

Sign(x) == IF x > 0 THEN 1 ELSE IF x < 0 THEN -1 ELSE 0

\* The values a division by zero produces: 0/0, x/0 with x > 0, x/0 with x < 0.
NaN == [n |-> 0, d |-> 0]
Infinity == [n |-> 1, d |-> 0]
NegInfinity == [n |-> -1, d |-> 0]

IsFinite(a) == a.d # 0

\* Infinity * 0 and NaN * x are NaN; Infinity * x has the sign of the product.
RMul(a, b) ==
  IF ~ IsFinite(a) \/ ~ IsFinite(b)
  THEN [n |-> Sign(a.n) * Sign(b.n), d |-> 0]
  ELSE LET g1 == GCD(Abs(a.n), b.d)
           g2 == GCD(Abs(b.n), a.d)
       IN  [n |-> (a.n \div g1) * (b.n \div g2), d |-> (a.d \div g2) * (b.d \div g1)]

RInv(a) == IF a.n > 0 THEN [n |-> a.d, d |-> a.n] ELSE [n |-> -a.d, d |-> -a.n]

\* a / 0 is NaN, Infinity or -Infinity by the sign of a.
RDiv(a, b) == IF b.n = 0 THEN [n |-> Sign(a.n), d |-> 0] ELSE RMul(a, RInv(b))

RLess(a, b) == RSub(a, b).n < 0

RLeq(a, b) == RSub(a, b).n <= 0

\* Mutant: the smaller of the two is taken (Math.min for Math.max).
RMax_Smaller(a, b) == IF RLess(a, b) THEN a ELSE b

RMax(a, b) == IF RLess(a, b) THEN b ELSE a

IsInteger(a) == a.d = 1

\* Math.round: the nearest integer, halves rounded up.
MathRound(a) ==
  IF ~ IsFinite(a) THEN a
  ELSE LET q == a.n \div a.d
           r == a.n % a.d
       IN  IF r >= a.d - r THEN q + 1 ELSE q

(***************************************************************************)
(* generateGrowthRates: one loop iteration and the whole loop.             *)
(***************************************************************************)
transitionYears_Ten == 10

transitionYears == 9

GrowthRateEntry(initialRate, terminalRate, year) ==
  LET decay == RDiv(RSub(initialRate, terminalRate), Num(transitionYears))
      rate  == IF year < 10
               THEN RMax(terminalRate, RSub(initialRate, RMul(decay, Num(year - 1))))
               ELSE terminalRate
  IN  [year |-> year, rate |-> RDiv(Num(MathRound(RMul(rate, Num(100)))), Num(100))]

\* Mutant: the loop stops one year early (year < years).
GenerateContinues_Strict(year, years) == RLess(Num(year), years)

\* year <= years
GenerateContinues(year, years) == RLeq(Num(year), years)

RECURSIVE GenerateFrom(_, _, _, _, _)
GenerateFrom(initialRate, terminalRate, years, year, rates) ==
  IF GenerateContinues(year, years)
  THEN GenerateFrom(initialRate, terminalRate, years, year + 1,
                    Append(rates, GrowthRateEntry(initialRate, terminalRate, year)))
  ELSE rates

generateGrowthRates(initialRate, terminalRate, years) ==
  GenerateFrom(initialRate, terminalRate, years, 1, <<>>)

(***************************************************************************)
(* calculateProjections: the loop state, one iteration, the whole loop.    *)
(***************************************************************************)
\* inputs.growthRates.find(g => g.year === year)?.rate || last entry's rate
GrowthRateFor(growthRates, year) ==
  LET hits == {k \in 1..Len(growthRates) : growthRates[k].year = year}
      k0   == CHOOSE k \in hits : \A j \in hits : k <= j
  IN  IF hits # {} /\ growthRates[k0].rate.n # 0
      THEN growthRates[k0].rate
      ELSE growthRates[Len(growthRates)].rate

\* The lookup with no usable entry of its own reads the rate of
\* growthRates[growthRates.length - 1]: on an empty schedule that element is
\* undefined and reading its rate throws a TypeError.
LookupThrows(growthRates, year) ==
  /\ \A k \in 1..Len(growthRates) :
       growthRates[k].year # year \/ growthRates[k].rate.n = 0
  /\ Len(growthRates) = 0

ProjectionStart(inp) ==
  [projections      |-> <<>>,
   totalBorrowed    |-> Num(0),
   totalInterest    |-> Num(0),
   inflatedExpenses |-> inp.annualExpenses,
   bitcoinValue     |-> inp.bitcoinPrice,
   i                |-> 0]

\* Mutant: rows are numbered from the zero-based loop index.
YearOf_ZeroBased(i) == i

\* const year = i + 1
YearOf(i) == i + 1

\* i < inputs.years
ProjectionContinues(inp, s) == RLess(Num(s.i), inp.years)

\* Mutant: interest is charged on the principal after this year's borrowing.
InterestPrincipal_AfterBorrowing(s) == RAdd(s.totalBorrowed, s.inflatedExpenses)

\* The principal that accrues interest: the debt borrowed in earlier years.
InterestPrincipal(s) == s.totalBorrowed

\* Mutant: the year's interest is paid off instead of accumulated.
AccrueInterest_Subtract(totalInterest, newInterest) == RSub(totalInterest, newInterest)

\* totalInterest += newInterest
AccrueInterest(totalInterest, newInterest) == RAdd(totalInterest, newInterest)

\* Mutant: the debt leaves the interest out.
TotalDebtOf_PrincipalOnly(totalBorrowed, totalInterest) == totalBorrowed

\* totalDebt = totalBorrowed + totalInterest
TotalDebtOf(totalBorrowed, totalInterest) == RAdd(totalBorrowed, totalInterest)

\* Mutant: LTV against the end-of-year portfolio value.
StartYearPortfolioValue_EndPrice(bitcoinValue, nextBitcoinValue, bitcoinAmount) ==
  RMul(nextBitcoinValue, bitcoinAmount)

\* startYearPortfolioValue = bitcoinValue * inputs.bitcoinAmount
StartYearPortfolioValue(bitcoinValue, nextBitcoinValue, bitcoinAmount) ==
  RMul(bitcoinValue, bitcoinAmount)

\* Mutant: the ratio is left as a fraction, not a percentage.
LtvRatioOf_Fraction(totalDebt, startYearPortfolioValue) ==
  RDiv(totalDebt, startYearPortfolioValue)

\* ltvRatio = (totalDebt / startYearPortfolioValue) * 100
LtvRatioOf(totalDebt, startYearPortfolioValue) ==
  RMul(RDiv(totalDebt, startYearPortfolioValue), Num(100))

\* Mutant: the rounded price is carried into the next year.
CarriedBitcoinValue_Rounded(nextBitcoinValue) == Num(MathRound(nextBitcoinValue))

\* bitcoinValue = nextBitcoinValue
CarriedBitcoinValue(nextBitcoinValue) == nextBitcoinValue

\* Mutant: the inflated expenses are rounded before they are carried over.
InflateExpenses_Rounded(inflatedExpenses, inflationRate) ==
  Num(MathRound(RMul(inflatedExpenses, RAdd(Num(1), RDiv(inflationRate, Num(100))))))

\* inflatedExpenses *= (1 + inputs.inflationRate/100)
InflateExpenses(inflatedExpenses, inflationRate) ==
  RMul(inflatedExpenses, RAdd(Num(1), RDiv(inflationRate, Num(100))))

ProjectionStep(inp, s) ==
  LET year             == YearOf(s.i)
      newInterest      == RMul(InterestPrincipal(s), RDiv(inp.interestRate, Num(100)))
      totalInterest    == AccrueInterest(s.totalInterest, newInterest)
      totalBorrowed    == RAdd(s.totalBorrowed, s.inflatedExpenses)
      growthRate       == GrowthRateFor(inp.growthRates, year)
      nextBitcoinValue == RMul(s.bitcoinValue, RAdd(Num(1), RDiv(growthRate, Num(100))))
      portfolioValue   == RMul(nextBitcoinValue, inp.bitcoinAmount)
      totalDebt        == TotalDebtOf(totalBorrowed, totalInterest)
      netWorth         == RSub(portfolioValue, totalDebt)
      startYearPortfolioValue ==
        StartYearPortfolioValue(s.bitcoinValue, nextBitcoinValue, inp.bitcoinAmount)
      ltvRatio         == LtvRatioOf(totalDebt, startYearPortfolioValue)
      snapshot ==
        [year              |-> year,
         growthRate        |-> growthRate,
         bitcoinPriceStart |-> MathRound(s.bitcoinValue),
         bitcoinPriceEnd   |-> MathRound(nextBitcoinValue),
         portfolioValue    |-> MathRound(portfolioValue),
         totalBorrowed     |-> MathRound(totalBorrowed),
         totalInterest     |-> MathRound(totalInterest),
         totalDebt         |-> MathRound(totalDebt),
         netWorth          |-> MathRound(netWorth),
         ltvRatio          |-> MathRound(ltvRatio),
         annualExpenses    |-> MathRound(s.inflatedExpenses)]
  IN  [projections      |-> Append(s.projections, snapshot),
       totalBorrowed    |-> totalBorrowed,
       totalInterest    |-> totalInterest,
       inflatedExpenses |-> InflateExpenses(s.inflatedExpenses, inp.inflationRate),
       bitcoinValue     |-> CarriedBitcoinValue(nextBitcoinValue),
       i                |-> s.i + 1]

RECURSIVE ProjectionLoop(_, _)
ProjectionLoop(inp, s) ==
  IF ProjectionContinues(inp, s) THEN ProjectionLoop(inp, ProjectionStep(inp, s)) ELSE s

calculateProjections(inp) == ProjectionLoop(inp, ProjectionStart(inp)).projections

(***************************************************************************)
(* calculateProjections of the earlier revision (src/unnamed/part_001):    *)
(* the year's expenses are borrowed first and interest is charged on the   *)
(* principal after borrowing; LTV and portfolioValue use the start price.  *)
(***************************************************************************)
\* Mutant: interest on the principal before this year's borrowing.
EarlierInterestPrincipal_BeforeBorrowing(s) == s.totalBorrowed

\* totalBorrowed += inflatedExpenses; totalInterest += totalBorrowed * rate
EarlierInterestPrincipal(s) == RAdd(s.totalBorrowed, s.inflatedExpenses)

EarlierProjectionStep(inp, s) ==
  LET year             == s.i + 1
      totalBorrowed    == RAdd(s.totalBorrowed, s.inflatedExpenses)
      totalInterest    == RAdd(s.totalInterest,
                               RMul(EarlierInterestPrincipal(s), RDiv(inp.interestRate, Num(100))))
      portfolioValue   == RMul(s.bitcoinValue, inp.bitcoinAmount)
      totalDebt        == RAdd(totalBorrowed, totalInterest)
      netWorth         == RSub(portfolioValue, totalDebt)
      ltvRatio         == RMul(RDiv(totalDebt, portfolioValue), Num(100))
      growthRate       == GrowthRateFor(inp.growthRates, year)
      nextBitcoinValue == RMul(s.bitcoinValue, RAdd(Num(1), RDiv(growthRate, Num(100))))
      snapshot ==
        [year           |-> year,
         growthRate     |-> growthRate,
         bitcoinPrice   |-> MathRound(IF s.i = 0 THEN s.bitcoinValue ELSE nextBitcoinValue),
         portfolioValue |-> MathRound(portfolioValue),
         totalBorrowed  |-> MathRound(totalBorrowed),
         totalInterest  |-> MathRound(totalInterest),
         totalDebt      |-> MathRound(totalDebt),
         netWorth       |-> MathRound(netWorth),
         ltvRatio       |-> RDiv(Num(MathRound(RMul(ltvRatio, Num(100)))), Num(100)),
         annualExpenses |-> MathRound(s.inflatedExpenses)]
  IN  [projections      |-> Append(s.projections, snapshot),
       totalBorrowed    |-> totalBorrowed,
       totalInterest    |-> totalInterest,
       inflatedExpenses |-> RMul(s.inflatedExpenses,
                                 RAdd(Num(1), RDiv(inp.inflationRate, Num(100)))),
       bitcoinValue     |-> nextBitcoinValue,
       i                |-> s.i + 1]

RECURSIVE EarlierProjectionLoop(_, _)
EarlierProjectionLoop(inp, s) ==
  IF RLess(Num(s.i), inp.years)
  THEN EarlierProjectionLoop(inp, EarlierProjectionStep(inp, s))
  ELSE s

EarlierCalculateProjections(inp) ==
  EarlierProjectionLoop(inp, ProjectionStart(inp)).projections

(***************************************************************************)
(* findOptimalAnnualExpenses: the loop state, one iteration, the return.   *)
(***************************************************************************)
\* Mutant: the search stops two orders of magnitude earlier.
PRECISION_Coarse == 10000

PRECISION == 100

DefaultMaxLTV == 50

\* inputs.maxLTV || 50
EffectiveMaxLTV(inp) == IF inp.maxLTV.n = 0 THEN Num(DefaultMaxLTV) ELSE inp.maxLTV

\* Mutant: the maximum over no snapshots counts as above every maxLTV.
MaxLTVWithin_NonEmpty(projections, maxLTV) ==
  /\ Len(projections) > 0
  /\ \A k \in 1..Len(projections) : RLeq(Num(projections[k].ltvRatio), maxLTV)

\* Math.max(...projections.map(p => p.ltvRatio)) <= maxLTV ; Math.max() of
\* no arguments is -Infinity, which is below every maxLTV.
MaxLTVWithin(projections, maxLTV) ==
  \A k \in 1..Len(projections) : RLeq(Num(projections[k].ltvRatio), maxLTV)

SearchStart(inp) ==
  [low             |-> Num(0),
   high            |-> RMul(inp.bitcoinPrice, inp.bitcoinAmount),
   optimalExpenses |-> Num(0)]

SearchContinues(s) == RLess(Num(PRECISION), RSub(s.high, s.low))

\* Mutant: the probe is taken a quarter of the way up the bracket.
SearchMid_Quarter(s) == RAdd(s.low, RDiv(RSub(s.high, s.low), Num(4)))

SearchMid(s) == RDiv(RAdd(s.low, s.high), Num(2))

\* Mutant: a feasible mid records the previous low as the optimum.
SearchStep_StaleOptimal(inp, s) ==
  LET mid         == SearchMid(s)
      projections == calculateProjections([inp EXCEPT !.annualExpenses = mid])
  IN  IF MaxLTVWithin(projections, EffectiveMaxLTV(inp))
      THEN [low |-> mid, high |-> s.high, optimalExpenses |-> s.low]
      ELSE [low |-> s.low, high |-> mid, optimalExpenses |-> s.optimalExpenses]

\* Mutant: the two branches are exchanged (a feasible mid lowers high).
SearchStep_Exchanged(inp, s) ==
  LET mid         == SearchMid(s)
      projections == calculateProjections([inp EXCEPT !.annualExpenses = mid])
  IN  IF MaxLTVWithin(projections, EffectiveMaxLTV(inp))
      THEN [low |-> s.low, high |-> mid, optimalExpenses |-> s.optimalExpenses]
      ELSE [low |-> mid, high |-> s.high, optimalExpenses |-> mid]

SearchStep(inp, s) ==
  LET mid         == SearchMid(s)
      projections == calculateProjections([inp EXCEPT !.annualExpenses = mid])
  IN  IF MaxLTVWithin(projections, EffectiveMaxLTV(inp))
      THEN [low |-> mid, high |-> s.high, optimalExpenses |-> mid]
      ELSE [low |-> s.low, high |-> mid, optimalExpenses |-> s.optimalExpenses]

\* Mutant: the optimum is truncated (Math.floor for Math.round).
SearchResult_Floor(s) == s.optimalExpenses.n \div s.optimalExpenses.d

\* return Math.round(optimalExpenses)
SearchResult(s) == MathRound(s.optimalExpenses)

RECURSIVE SearchLoop(_, _)
SearchLoop(inp, s) ==
  IF SearchContinues(s) THEN SearchLoop(inp, SearchStep(inp, s)) ELSE s

findOptimalAnnualExpenses(inp) == SearchResult(SearchLoop(inp, SearchStart(inp)))

(***************************************************************************)
(* formatNumber and parseFormattedNumber.  A text is a sequence of         *)
(* one-character strings.                                                  *)
(***************************************************************************)
MaxLen == 3

DigitChars == <<"0", "1", "2", "3", "4", "5", "6", "7", "8", "9">>

IsDigit(c) == \E k \in 1..10 : DigitChars[k] = c

DigitValue(c) == (CHOOSE k \in 1..10 : DigitChars[k] = c) - 1

RECURSIVE Pow10(_)
Pow10(k) == IF k = 0 THEN 1 ELSE 10 * Pow10(k - 1)

\* The decimal digits of a natural number.
RECURSIVE DigitsOf(_)
DigitsOf(k) ==
  IF k < 10 THEN <<DigitChars[k + 1]>>
  ELSE Append(DigitsOf(k \div 10), DigitChars[(k % 10) + 1])

ThreeDigits(k) ==
  <<DigitChars[(k \div 100) + 1], DigitChars[((k \div 10) % 10) + 1], DigitChars[(k % 10) + 1]>>

\* en-US grouping: a comma before every group of three digits.
RECURSIVE Grouped(_)
Grouped(k) ==
  IF k < 1000 THEN DigitsOf(k)
  ELSE Grouped(k \div 1000) \o <<",">> \o ThreeDigits(k % 1000)

RECURSIVE StripZeros(_)
StripZeros(s) ==
  IF s # <<>> /\ s[Len(s)] = "0" THEN StripZeros(SubSeq(s, 1, Len(s) - 1)) ELSE s

\* value.toLocaleString('en-US'): at most three fraction digits, rounded,
\* trailing zeros dropped; '0' for null and undefined; 'NaN' for NaN; the
\* infinity sign is written oo.
formatNumber(value) ==
  IF value = [null |-> TRUE] THEN <<"0">>
  ELSE IF ~ IsFinite(value)
  THEN IF value.n = 0 THEN <<"N", "a", "N">>
       ELSE IF value.n > 0 THEN <<"oo">> ELSE <<"-", "oo">>
  ELSE LET thousandths == MathRound(RMul([n |-> Abs(value.n), d |-> value.d], Num(1000)))
           fraction    == StripZeros(ThreeDigits(thousandths % 1000))
       IN  (IF value.n < 0 THEN <<"-">> ELSE <<>>)
             \o Grouped(thousandths \div 1000)
             \o (IF fraction = <<>> THEN <<>> ELSE <<".">> \o fraction)

RECURSIVE LeadingDigits(_)
LeadingDigits(s) ==
  IF s # <<>> /\ IsDigit(Head(s)) THEN 1 + LeadingDigits(Tail(s)) ELSE 0

RECURSIVE DigitsValue(_)
DigitsValue(s) ==
  IF s = <<>> THEN 0
  ELSE 10 * DigitsValue(SubSeq(s, 1, Len(s) - 1)) + DigitValue(s[Len(s)])

\* The longest prefix of the form digits [. digits] with at least one digit;
\* NaN when there is none.
ParseUnsigned(s) ==
  LET whole    == LeadingDigits(s)
      rest     == SubSeq(s, whole + 1, Len(s))
      decimals == IF rest # <<>> /\ Head(rest) = "." THEN LeadingDigits(Tail(rest)) ELSE 0
  IN  IF whole + decimals = 0 THEN NaN
      ELSE Rat(DigitsValue(SubSeq(s, 1, whole)) * Pow10(decimals)
                 + DigitsValue(SubSeq(rest, 2, decimals + 1)),
               Pow10(decimals))

\* parseFloat on texts of digits, dots, signs and other characters (no
\* exponent and no 'Infinity' can be written with the characters used here).
parseFloat(s) ==
  IF s # <<>> /\ Head(s) = "-" THEN RNeg(ParseUnsigned(Tail(s)))
  ELSE IF s # <<>> /\ Head(s) = "+" THEN ParseUnsigned(Tail(s))
  ELSE ParseUnsigned(s)

NotComma(c) == c # ","

\* parseFloat(value.replace(/,/g, ''))
parseFormattedNumber(value) == parseFloat(SelectSeq(value, NotComma))

\* e.target.value.replace(/[^\d.,]/g, '')
KeptByField(c) == IsDigit(c) \/ c = "." \/ c = ","

\* The characters typed or pasted into the field, and the texts they make.
Keys == {"1", ".", ",", "-"}

TypedTexts == UNION { [1..k -> Keys] : k \in 0..MaxLen }

(***************************************************************************)
(* State of the BitcoinRetirementCalculator component and of the calls in  *)
(* progress.                                                               *)
(***************************************************************************)
VARIABLES
  inputs,           \* useState: the input record
  growthRates,      \* useMemo: the schedule of the current inputs
  optimalExpenses,  \* useState
  results,          \* useState
  pc,               \* position of the render / calculation effect
  gen,              \* generateGrowthRates in progress: [rates, year]
  search,           \* findOptimalAnnualExpenses in progress: [low, high, optimalExpenses]
  projInputs,       \* argument of the calculateProjections call in progress
  proj,             \* calculateProjections in progress: accumulators and rows
  now,              \* Date.now()
  lastSuccessfulFetch, \* module variable of fetchBitcoinPrice
  calls,            \* the runs of updateBitcoinPrice / fetchBitcoinPrice
  requests,         \* the network requests issued so far, in order
  isFetchingPrice,  \* useState
  priceError,       \* useState
  inputValue,       \* InputField of the Years field: useState, the text shown
  isEditing,        \* InputField of the Years field: useState
  onChangeArg       \* the value last passed to the field's onChange

\* The state of the price fetch.
fetchVars == <<now, lastSuccessfulFetch, calls, requests, isFetchingPrice, priceError>>

\* The state of the Years input field.
fieldVars == <<inputValue, isEditing, onChangeArg>>

vars == <<inputs, growthRates, optimalExpenses, results, pc, gen, search, projInputs, proj,
          fetchVars, fieldVars>>

NoCall == [idle |-> TRUE]

\* bitcoinPrice: null until the first price is known
Null == [null |-> TRUE]

\* const baseInputs = { ...inputs, growthRates }
BaseInputs ==
  [f \in DOMAIN inputs \cup {"growthRates"} |->
     IF f = "growthRates" THEN growthRates ELSE inputs[f]]

(***************************************************************************)
(* Input values.                                                           *)
(***************************************************************************)
BitcoinPrices == {151, 100000}
AnnualExpensesFor(price) == IF price = 151 THEN {0, 60} ELSE {0, 10000}
BitcoinAmounts == {1, 2}
InterestRates == {0, 20}
InflationRates == {0, 20}
InitialGrowthRates == {10, 55}
TerminalGrowthRates == {-80, 10}
MaxLTVs == {50, 100}
ScheduleRates == {-80, 0, 10, 15, 60}

MakeInputs(amount, price, years, interest, initial, terminal, inflation, ltv, optimal, expenses) ==
  [bitcoinAmount      |-> Num(amount),
   bitcoinPrice       |-> Num(price),
   years              |-> Num(years),
   interestRate       |-> Num(interest),
   initialGrowthRate  |-> Num(initial),
   terminalGrowthRate |-> Num(terminal),
   inflationRate      |-> Num(inflation),
   maxLTV             |-> Num(ltv),
   useOptimalExpenses |-> optimal,
   annualExpenses     |-> Num(expenses)]

InputGrid ==
  { MakeInputs(amount, price, years, interest, initial, terminal, inflation, ltv, optimal, expenses) :
      amount \in BitcoinAmounts, price \in BitcoinPrices, years \in 0..MaxYears,
      interest \in InterestRates, initial \in InitialGrowthRates,
      terminal \in TerminalGrowthRates, inflation \in InflationRates,
      ltv \in MaxLTVs, optimal \in BOOLEAN, expenses \in {0, 60, 10000} }

ScheduleGrid ==
  { MakeInputs(1, 100000, years, 14, initial, terminal, 3, 50, FALSE, 0) :
      years \in 0..MaxScheduleYears, initial \in ScheduleRates, terminal \in ScheduleRates }

\* Records with at least one argument out of its documented range: no
\* bitcoin, a zero price, no years, a negative interest or inflation rate,
\* a maxLTV of 0 (replaced by 50 at line 90) or above 100.
OutOfRange(inp) ==
  \/ inp.bitcoinAmount.n <= 0
  \/ inp.bitcoinPrice.n <= 0
  \/ inp.years.n <= 0
  \/ inp.interestRate.n < 0
  \/ inp.inflationRate.n < 0
  \/ inp.maxLTV.n <= 0
  \/ RLess(Num(100), inp.maxLTV)

InvalidGrid ==
  { inp \in
      { MakeInputs(amount, price, years, interest, 10, 10, inflation, ltv, optimal, expenses) :
          amount \in {0} \cup BitcoinAmounts, price \in {0} \cup BitcoinPrices,
          years \in 0..MaxYears, interest \in {-20} \cup InterestRates,
          inflation \in {-20, 0}, ltv \in {0, 150} \cup MaxLTVs,
          optimal \in BOOLEAN, expenses \in {0, 60, 10000} } :
      OutOfRange(inp) }

\* Manual-mode records for running the revisions of calculateProjections
\* side by side, small and ordinary expense levels included.
RevisionExpenses == {0, 2, 60}

RevisionGrid ==
  { MakeInputs(amount, 100000, years, interest, 10, 10, inflation, 50, FALSE, expenses) :
      amount \in BitcoinAmounts, years \in 0..MaxYears, interest \in InterestRates,
      inflation \in InflationRates, expenses \in RevisionExpenses }

\* Records with whole and fractional initial portfolio values (15.1, 151,
\* 399.2, 3992, 10000, 100000), with and without years to project.
PortfolioPrices == {151, 3992, 100000}

PortfolioGrid ==
  { [MakeInputs(1, price, years, 20, 10, 10, 0, ltv, optimal, 60)
       EXCEPT !.bitcoinAmount = Rat(tenths, 10)] :
      price \in PortfolioPrices, tenths \in {1, 10}, years \in {0, 1},
      ltv \in MaxLTVs, optimal \in BOOLEAN }

\* Manual-mode records with the years the Years field can deliver: the field
\* passes on parseFloat of its digits, dots and commas, so halves as well as
\* whole numbers.
YearsGrid ==
  { [MakeInputs(amount, 100000, 0, interest, 10, 10, inflation, 50, FALSE, expenses)
       EXCEPT !.years = Rat(halves, 2)] :
      amount \in BitcoinAmounts, halves \in 0..(2 * MaxYears - 1), interest \in InterestRates,
      inflation \in InflationRates, expenses \in RevisionExpenses }

\* The component's initial inputs, with the price known, for the Years field.
FieldGrid ==
  { MakeInputs(3, 100000, 20, 14, 60, 15, 3, 50, optimal, 150000) : optimal \in BOOLEAN }

(***************************************************************************)
(* fetchBitcoinPrice and updateBitcoinPrice: values.                       *)
(***************************************************************************)
MaxRuns == 2

\* The runs of the mount effect (line 915), in the order they start.
Runs == 1..MaxRuns

FETCH_COOLDOWN_MS == 60000

\* return 100000 (line 160) and bitcoinPrice: 100000 (line 906)
DefaultPrice == 100000

\* Math.round(data.market_data.current_price.usd)
FetchedPrices == {151}

\* Values of Date.now(), in milliseconds.
Instants == {1000, 1001, 60999, 61000, 61001}

FirstInstant == 1000

\* priceError: null
NoPriceError == "null"

RateLimitedMessage == "Rate limited: Please wait a minute between price refreshes"

\* What can go wrong with a request that was issued: fetch rejects, the
\* status is 429, the status is not OK, the body cannot be read.
RequestFailures == {"network", "429", "status"}

FailureMessage(cause) ==
  IF cause = "429" THEN "Rate limited by CoinGecko API. Please try again in a minute."
  ELSE IF cause = "status" THEN "Failed to fetch Bitcoin price: status"
  ELSE IF cause = "body" THEN "unreadable body"
  ELSE "network error"

\* A run that has not started.  pc: where the run stands; now: the value of
\* Date.now() read at line 129; cause: what became of its request; outcome
\* and price: how fetchBitcoinPrice ended.
NotStarted == [pc |-> "idle", now |-> 0, cause |-> "none", outcome |-> "none", price |-> 0]

\* inputs.bitcoinPrice as read at line 903: updateBitcoinPrice is called from
\* the mount effect only, so it is the function of the first render, whose
\* inputs.bitcoinPrice is null.
ClosureBitcoinPrice == Null

FetchGrid ==
  { [MakeInputs(1, 151, 1, 20, 10, 10, 20, 50, optimal, 60)
       EXCEPT !.bitcoinPrice = Null, !.bitcoinAmount = Rat(1, 500)] :
      optimal \in BOOLEAN }

Start(grid) ==
  /\ inputs \in grid
  /\ growthRates = <<>>
  /\ optimalExpenses = 0
  /\ results = <<>>
  /\ pc = "render"
  /\ gen = [rates |-> <<>>, year |-> 1]
  /\ search = NoCall
  /\ projInputs = NoCall
  /\ proj = NoCall
  /\ now = FirstInstant
  /\ lastSuccessfulFetch = 0
  /\ calls = [r \in Runs |-> NotStarted]
  /\ requests = <<>>
  /\ isFetchingPrice = TRUE
  /\ priceError = NoPriceError
  /\ inputValue = formatNumber(inputs.years)
  /\ isEditing = FALSE
  /\ onChangeArg = NoCall

Init ==
  Start({inp \in InputGrid : inp.annualExpenses.n \in AnnualExpensesFor(inp.bitcoinPrice.n)})

InitSchedule == Start(ScheduleGrid)

InitRevisions == Start(RevisionGrid)

InitFetch == Start(FetchGrid)

InitYears == Start(YearsGrid)

InitPortfolio == Start(PortfolioGrid)

InitField == Start(FieldGrid)

InitInvalid ==
  Start({inp \in InvalidGrid : inp.annualExpenses.n \in AnnualExpensesFor(inp.bitcoinPrice.n)})

(***************************************************************************)
(* Render: useMemo(generateGrowthRates), one loop iteration per step.      *)
(***************************************************************************)
GenStep ==
  /\ pc = "render"
  /\ GenerateContinues(gen.year, inputs.years)
  /\ gen' = [rates |-> Append(gen.rates,
                       GrowthRateEntry(inputs.initialGrowthRate, inputs.terminalGrowthRate, gen.year)),
             year  |-> gen.year + 1]
  /\ UNCHANGED <<inputs, growthRates, optimalExpenses, results, pc, search, projInputs, proj>>
  /\ UNCHANGED fetchVars
  /\ UNCHANGED fieldVars

GenReturn ==
  /\ pc = "render"
  /\ ~ GenerateContinues(gen.year, inputs.years)
  /\ growthRates' = gen.rates
  /\ pc' = "effect"
  /\ UNCHANGED <<inputs, optimalExpenses, results, gen, search, projInputs, proj>>
  /\ UNCHANGED fetchVars
  /\ UNCHANGED fieldVars

(***************************************************************************)
(* Calculation effect.                                                     *)
(***************************************************************************)
EffectOptimal ==
  /\ pc = "effect"
  /\ inputs.bitcoinPrice # Null
  /\ inputs.useOptimalExpenses
  /\ search' = SearchStart(BaseInputs)
  /\ pc' = "search"
  /\ UNCHANGED <<inputs, growthRates, optimalExpenses, results, gen, projInputs, proj>>
  /\ UNCHANGED fetchVars
  /\ UNCHANGED fieldVars

\* Mutant: the probe writes mid into the caller's record (inputs.annualExpenses
\* = mid) instead of passing the copy { ...inputs, annualExpenses: mid }.
SearchIterate_InPlace ==
  /\ pc = "search"
  /\ SearchContinues(search)
  /\ search' = SearchStep(BaseInputs, search)
  /\ inputs' = [inputs EXCEPT !.annualExpenses = SearchMid(search)]
  /\ UNCHANGED <<growthRates, optimalExpenses, results, pc, gen, projInputs, proj>>
  /\ UNCHANGED fetchVars
  /\ UNCHANGED fieldVars

SearchIterate ==
  /\ pc = "search"
  /\ SearchContinues(search)
  /\ search' = SearchStep(BaseInputs, search)
  /\ UNCHANGED <<inputs, growthRates, optimalExpenses, results, pc, gen, projInputs, proj>>
  /\ UNCHANGED fetchVars
  /\ UNCHANGED fieldVars

SearchReturn ==
  /\ pc = "search"
  /\ ~ SearchContinues(search)
  /\ optimalExpenses' = SearchResult(search)
  /\ projInputs' = [BaseInputs EXCEPT !.annualExpenses = Num(SearchResult(search))]
  /\ proj' = ProjectionStart(projInputs')
  /\ pc' = "project"
  /\ UNCHANGED <<inputs, growthRates, results, gen, search>>
  /\ UNCHANGED fetchVars
  /\ UNCHANGED fieldVars

EffectManual ==
  /\ pc = "effect"
  /\ inputs.bitcoinPrice # Null
  /\ ~ inputs.useOptimalExpenses
  /\ projInputs' = [BaseInputs EXCEPT !.annualExpenses = inputs.annualExpenses]
  /\ proj' = ProjectionStart(projInputs')
  /\ pc' = "project"
  /\ UNCHANGED <<inputs, growthRates, optimalExpenses, results, gen, search>>
  /\ UNCHANGED fetchVars
  /\ UNCHANGED fieldVars

ProjectIterate ==
  /\ pc = "project"
  /\ ProjectionContinues(projInputs, proj)
  /\ ~ LookupThrows(projInputs.growthRates, YearOf(proj.i))
  /\ proj' = ProjectionStep(projInputs, proj)
  /\ UNCHANGED <<inputs, growthRates, optimalExpenses, results, pc, gen, search, projInputs>>
  /\ UNCHANGED fetchVars
  /\ UNCHANGED fieldVars

\* The iteration whose lookup throws: the TypeError leaves calculateProjections
\* and the effect, and nothing is stored.
ProjectThrows ==
  /\ pc = "project"
  /\ ProjectionContinues(projInputs, proj)
  /\ LookupThrows(projInputs.growthRates, YearOf(proj.i))
  /\ pc' = "error"
  /\ UNCHANGED <<inputs, growthRates, optimalExpenses, results, gen, search, projInputs, proj>>
  /\ UNCHANGED fetchVars
  /\ UNCHANGED fieldVars

ProjectReturn ==
  /\ pc = "project"
  /\ ~ ProjectionContinues(projInputs, proj)
  /\ results' = proj.projections
  /\ pc' = "done"
  /\ UNCHANGED <<inputs, growthRates, optimalExpenses, gen, search, projInputs, proj>>
  /\ UNCHANGED fetchVars
  /\ UNCHANGED fieldVars

(***************************************************************************)
(* Price fetch: updateBitcoinPrice (lines 891-912) around fetchBitcoinPrice *)
(* (lines 128-164).  JavaScript runs each callback to completion, so the   *)
(* steps of a run are taken between renders and effects, never inside one. *)
(***************************************************************************)
Quiescent == pc \in {"effect", "done"}

\* Mutant: the cooldown also covers the 60000th millisecond (<= for <).
CooldownActive_Inclusive(at) ==
  lastSuccessfulFetch # 0 /\ at - lastSuccessfulFetch <= FETCH_COOLDOWN_MS

\* lastSuccessfulFetch && (now - lastSuccessfulFetch) < FETCH_COOLDOWN_MS
CooldownActive(at) ==
  lastSuccessfulFetch # 0 /\ at - lastSuccessfulFetch < FETCH_COOLDOWN_MS

\* setInputs(prev => ({ ...prev, bitcoinPrice: price })): the calculation
\* effect runs again when inputs.bitcoinPrice has changed.
SetBitcoinPrice(price) ==
  /\ inputs' = [inputs EXCEPT !.bitcoinPrice = Num(price)]
  /\ pc' = IF inputs.bitcoinPrice = Num(price) THEN pc ELSE "effect"

\* The catch block of updateBitcoinPrice: the price is reset to the default
\* when the inputs.bitcoinPrice of the closure is null.
KeepOrDefaultPrice ==
  IF ClosureBitcoinPrice = Null
  THEN SetBitcoinPrice(DefaultPrice)
  ELSE UNCHANGED <<inputs, pc>>

\* The clock advances.
Tick ==
  /\ Quiescent
  /\ \E t \in Instants : t > now /\ now' = t
  /\ UNCHANGED <<inputs, growthRates, optimalExpenses, results, pc, gen, search, projInputs, proj,
                 lastSuccessfulFetch, calls, requests, isFetchingPrice, priceError>>
  /\ UNCHANGED fieldVars

\* updateBitcoinPrice up to its await: lines 892-893, then fetchBitcoinPrice
\* up to the cooldown test; the request is issued at line 137.
RunStartRequest(r) ==
  /\ Quiescent
  /\ calls[r].pc = "idle"
  /\ \A q \in Runs : q < r => calls[q].pc # "idle"
  /\ ~ CooldownActive(now)
  /\ isFetchingPrice' = TRUE
  /\ priceError' = NoPriceError
  /\ calls' = [calls EXCEPT ![r] = [@ EXCEPT !.pc = "awaiting", !.now = now]]
  /\ requests' = Append(requests, [run |-> r, at |-> now])
  /\ UNCHANGED <<inputs, growthRates, optimalExpenses, results, pc, gen, search, projInputs, proj,
                 now, lastSuccessfulFetch>>
  /\ UNCHANGED fieldVars

\* The same with the cooldown test failing: line 132 throws, no request.
RunStartLimited(r) ==
  /\ Quiescent
  /\ calls[r].pc = "idle"
  /\ \A q \in Runs : q < r => calls[q].pc # "idle"
  /\ CooldownActive(now)
  /\ isFetchingPrice' = TRUE
  /\ priceError' = NoPriceError
  /\ calls' = [calls EXCEPT ![r] = [@ EXCEPT !.pc = "limited", !.now = now,
                                               !.cause = "cooldown", !.outcome = "threw"]]
  /\ UNCHANGED <<inputs, growthRates, optimalExpenses, results, pc, gen, search, projInputs, proj,
                 now, lastSuccessfulFetch, requests>>
  /\ UNCHANGED fieldVars

\* The rejected call resumes updateBitcoinPrice in its catch and finally.
RunLimitedEnds(r) ==
  /\ Quiescent
  /\ calls[r].pc = "limited"
  /\ priceError' = RateLimitedMessage
  /\ KeepOrDefaultPrice
  /\ isFetchingPrice' = FALSE
  /\ calls' = [calls EXCEPT ![r] = [@ EXCEPT !.pc = "ended"]]
  /\ UNCHANGED <<growthRates, optimalExpenses, results, gen, search, projInputs, proj,
                 now, lastSuccessfulFetch, requests>>
  /\ UNCHANGED fieldVars

\* Mutant: updateBitcoinPrice without its finally block; a failed run leaves
\* isFetchingPrice as it was.
FailureEnds_NoFinally(r, cause) ==
  /\ IF lastSuccessfulFetch = 0
     THEN /\ calls' = [calls EXCEPT ![r] = [@ EXCEPT !.pc = "ended", !.cause = cause,
                                                     !.outcome = "returned",
                                                     !.price = DefaultPrice]]
          /\ SetBitcoinPrice(DefaultPrice)
          /\ UNCHANGED priceError
     ELSE /\ calls' = [calls EXCEPT ![r] = [@ EXCEPT !.pc = "ended", !.cause = cause,
                                                     !.outcome = "threw"]]
          /\ priceError' = FailureMessage(cause)
          /\ KeepOrDefaultPrice
  /\ UNCHANGED <<growthRates, optimalExpenses, results, gen, search, projInputs, proj,
                 now, lastSuccessfulFetch, requests, isFetchingPrice>>
  /\ UNCHANGED fieldVars

\* The catch block of fetchBitcoinPrice (lines 156-163) and the rest of
\* updateBitcoinPrice after it.
FailureEnds(r, cause) ==
  /\ IF lastSuccessfulFetch = 0
     THEN /\ calls' = [calls EXCEPT ![r] = [@ EXCEPT !.pc = "ended", !.cause = cause,
                                                     !.outcome = "returned",
                                                     !.price = DefaultPrice]]
          /\ SetBitcoinPrice(DefaultPrice)
          /\ UNCHANGED priceError
     ELSE /\ calls' = [calls EXCEPT ![r] = [@ EXCEPT !.pc = "ended", !.cause = cause,
                                                     !.outcome = "threw"]]
          /\ priceError' = FailureMessage(cause)
          /\ KeepOrDefaultPrice
  /\ isFetchingPrice' = FALSE
  /\ UNCHANGED <<growthRates, optimalExpenses, results, gen, search, projInputs, proj,
                 now, lastSuccessfulFetch, requests>>
  /\ UNCHANGED fieldVars

\* fetch rejects, or the response has status 429 or another non-OK status.
RequestFails(r) ==
  /\ Quiescent
  /\ calls[r].pc = "awaiting"
  /\ \E cause \in RequestFailures : FailureEnds(r, cause)

\* The response is OK: response.json() is awaited.
ResponseArrives(r) ==
  /\ Quiescent
  /\ calls[r].pc = "awaiting"
  /\ calls' = [calls EXCEPT ![r] = [@ EXCEPT !.pc = "reading"]]
  /\ UNCHANGED <<inputs, growthRates, optimalExpenses, results, pc, gen, search, projInputs, proj,
                 now, lastSuccessfulFetch, requests, isFetchingPrice, priceError>>
  /\ UNCHANGED fieldVars

\* response.json() rejects or the data has no price.
BodyFails(r) ==
  /\ Quiescent
  /\ calls[r].pc = "reading"
  /\ FailureEnds(r, "body")

\* Lines 152-155, then lines 896-899 and 910.
BodyRead(r) ==
  /\ Quiescent
  /\ calls[r].pc = "reading"
  /\ \E price \in FetchedPrices :
       /\ calls' = [calls EXCEPT ![r] = [@ EXCEPT !.pc = "ended", !.cause = "ok",
                                                  !.outcome = "returned", !.price = price]]
       /\ SetBitcoinPrice(price)
  /\ lastSuccessfulFetch' = calls[r].now
  /\ isFetchingPrice' = FALSE
  /\ UNCHANGED <<growthRates, optimalExpenses, results, gen, search, projInputs, proj,
                 now, requests, priceError>>
  /\ UNCHANGED fieldVars

\* The calculation effect with inputs.bitcoinPrice === null does nothing.
EffectSkip ==
  /\ pc = "effect"
  /\ inputs.bitcoinPrice = Null
  /\ pc' = "done"
  /\ UNCHANGED <<inputs, growthRates, optimalExpenses, results, gen, search, projInputs, proj>>
  /\ UNCHANGED fetchVars
  /\ UNCHANGED fieldVars

Next ==
  \/ GenStep
  \/ GenReturn
  \/ EffectOptimal
  \/ SearchIterate
  \/ SearchReturn
  \/ EffectManual
  \/ ProjectIterate
  \/ ProjectReturn

Spec == Init /\ [][Next]_vars

NextSchedule ==
  \/ GenStep
  \/ GenReturn

SpecSchedule == InitSchedule /\ [][NextSchedule]_vars

NextRevisions ==
  \/ GenStep
  \/ GenReturn
  \/ EffectManual
  \/ ProjectIterate
  \/ ProjectReturn

\* The manual-mode projection on RevisionGrid.
SpecRevisions == InitRevisions /\ [][NextRevisions]_vars

NextFetch ==
  \/ GenStep
  \/ GenReturn
  \/ EffectSkip
  \/ EffectOptimal
  \/ SearchIterate
  \/ SearchReturn
  \/ EffectManual
  \/ ProjectIterate
  \/ ProjectReturn
  \/ Tick
  \/ \E r \in Runs : RunStartRequest(r)
  \/ \E r \in Runs : RunStartLimited(r)
  \/ \E r \in Runs : RunLimitedEnds(r)
  \/ \E r \in Runs : RequestFails(r)
  \/ \E r \in Runs : ResponseArrives(r)
  \/ \E r \in Runs : BodyFails(r)
  \/ \E r \in Runs : BodyRead(r)

\* The calculation for portfolio values that are not whole numbers.
SpecPortfolio == InitPortfolio /\ [][Next]_vars

(***************************************************************************)
(* InputField of the Years field (lines 1007-1013): type "number", neither *)
(* disabled nor loading; its value is inputs.years and its onChange is     *)
(* handleInputChange('years').                                             *)
(***************************************************************************)
\* onChange(value): setInputs(prev => ({ ...prev, years: value })); a new
\* years value starts a new render.
DeliverYears(value) ==
  /\ onChangeArg' = value
  /\ inputs' = [inputs EXCEPT !.years = value]
  /\ pc' = IF value = inputs.years THEN pc ELSE "render"
  /\ gen' = IF value = inputs.years THEN gen ELSE [rates |-> <<>>, year |-> 1]

handleFocus ==
  /\ ~ isEditing
  /\ isEditing' = TRUE
  /\ UNCHANGED <<inputs, growthRates, optimalExpenses, results, pc, gen, search, projInputs, proj,
                 inputValue, onChangeArg>>
  /\ UNCHANGED fetchVars

\* The text is filtered and shown; its value is passed on unless it is NaN.
\* When the field is not being edited, the effect of lines 174-178 then
\* shows the new value formatted.
handleChange ==
  /\ \E text \in TypedTexts :
       LET newValue == SelectSeq(text, KeptByField)
           parsed   == parseFormattedNumber(newValue)
       IN  IF parsed # NaN
           THEN /\ DeliverYears(parsed)
                /\ inputValue' = IF ~ isEditing /\ parsed # inputs.years
                                 THEN formatNumber(parsed)
                                 ELSE newValue
           ELSE /\ inputValue' = newValue
                /\ UNCHANGED <<inputs, pc, gen, onChangeArg>>
  /\ UNCHANGED <<growthRates, optimalExpenses, results, search, projInputs, proj, isEditing>>
  /\ UNCHANGED fetchVars

\* The field loses the focus it had: the shown text is parsed, passed on and
\* shown formatted.
handleBlur ==
  /\ isEditing
  /\ isEditing' = FALSE
  /\ LET parsedValue == parseFormattedNumber(inputValue)
     IN  /\ DeliverYears(parsedValue)
         /\ inputValue' = formatNumber(parsedValue)
  /\ UNCHANGED <<growthRates, optimalExpenses, results, search, projInputs, proj>>
  /\ UNCHANGED fetchVars

NextField ==
  \/ handleFocus
  \/ handleChange
  \/ handleBlur

\* The events of the Years field on the mounted component.
SpecField == InitField /\ [][NextField]_vars

NextYears ==
  \/ GenStep
  \/ GenReturn
  \/ EffectManual
  \/ ProjectIterate
  \/ ProjectThrows
  \/ ProjectReturn

\* The manual-mode calculation for whole and fractional years.
SpecYears == InitYears /\ [][NextYears]_vars

\* The component from its mount: the price is null until a run delivers one.
SpecFetch == InitFetch /\ [][NextFetch]_vars

\* A whole cooldown passes on the clock.
TickCooldown ==
  /\ Quiescent
  /\ now + FETCH_COOLDOWN_MS \in Instants
  /\ now' = now + FETCH_COOLDOWN_MS
  /\ UNCHANGED <<inputs, growthRates, optimalExpenses, results, pc, gen, search, projInputs, proj,
                 lastSuccessfulFetch, calls, requests, isFetchingPrice, priceError>>
  /\ UNCHANGED fieldVars

\* The steps of SpecFetch with the clock moving by whole cooldowns only.
NextFetchLive ==
  \/ GenStep
  \/ GenReturn
  \/ EffectSkip
  \/ EffectOptimal
  \/ SearchIterate
  \/ SearchReturn
  \/ EffectManual
  \/ ProjectIterate
  \/ ProjectReturn
  \/ TickCooldown
  \/ \E r \in Runs : RunStartRequest(r)
  \/ \E r \in Runs : RunStartLimited(r)
  \/ \E r \in Runs : RunLimitedEnds(r)
  \/ \E r \in Runs : RequestFails(r)
  \/ \E r \in Runs : ResponseArrives(r)
  \/ \E r \in Runs : BodyFails(r)
  \/ \E r \in Runs : BodyRead(r)

\* A render or effect that has begun is synchronous code: it runs on to its
\* end.  One of its steps is possible exactly when pc # "done", and these
\* are the steps that change calcVars, so this is weak fairness of the
\* calculation's steps written without ENABLED.
Computing == pc # "done"

calcVars == <<pc, gen, search, proj>>

CalculationFair == []<>(~ Computing) \/ []<><<Computing>>_calcVars

\* The promise continuations of a run are scheduled once their promise
\* settles, and every request that was issued settles (with a response or
\* with an error), as does the reading of a response body.
FetchFair ==
  \A r \in Runs :
    /\ WF_vars(RunLimitedEnds(r))
    /\ WF_vars(RequestFails(r) \/ ResponseArrives(r))
    /\ WF_vars(BodyFails(r) \/ BodyRead(r))

\* The component with its callbacks scheduled.
SpecFetchLive == InitFetch /\ [][NextFetchLive]_vars /\ FetchFair /\ CalculationFair

\* The same component started on input records the functions accept but the
\* interface documents as out of range: nothing in generateGrowthRates,
\* calculateProjections or findOptimalAnnualExpenses tests its arguments.
SpecInvalid == InitInvalid /\ [][Next]_vars

TypeOK ==
  /\ pc \in {"render", "effect", "search", "project", "done", "error"}
  /\ optimalExpenses \in Int

(***************************************************************************)
(* Reference values used by the properties: the recurrences written as     *)
(* closed sums and products over the years, independent of the loop.       *)
(***************************************************************************)
ValidInputs(inp) ==
  /\ inp.bitcoinAmount.n > 0
  /\ inp.bitcoinPrice.n > 0
  /\ IsInteger(inp.years) /\ inp.years.n >= 1
  /\ inp.interestRate.n >= 0
  /\ inp.inflationRate.n >= 0
  /\ inp.maxLTV.n > 0 /\ RLeq(inp.maxLTV, Num(100))
  /\ inp.annualExpenses.n >= 0

RECURSIVE ExpensesOfYear(_, _)
ExpensesOfYear(inp, y) ==
  IF y = 1 THEN inp.annualExpenses
  ELSE RMul(ExpensesOfYear(inp, y - 1), RAdd(Num(1), RDiv(inp.inflationRate, Num(100))))

RECURSIVE ExactBorrowed(_, _)
ExactBorrowed(inp, y) ==
  IF y = 0 THEN Num(0) ELSE RAdd(ExactBorrowed(inp, y - 1), ExpensesOfYear(inp, y))

\* Interest through year y: every earlier year's principal, charged once a year.
RECURSIVE ExactInterest(_, _)
ExactInterest(inp, y) ==
  IF y = 0 THEN Num(0)
  ELSE RAdd(ExactInterest(inp, y - 1),
            RMul(ExactBorrowed(inp, y - 1), RDiv(inp.interestRate, Num(100))))

ExactDebt(inp, y) == RAdd(ExactBorrowed(inp, y), ExactInterest(inp, y))

\* Unrounded price at the start of year y, from the growth rates the rows report.
RECURSIVE ExactStartPrice(_, _, _)
ExactStartPrice(inp, rows, y) ==
  IF y = 1 THEN inp.bitcoinPrice
  ELSE RMul(ExactStartPrice(inp, rows, y - 1),
            RAdd(Num(1), RDiv(rows[y - 1].growthRate, Num(100))))

ExactEndPrice(inp, rows, y) ==
  RMul(ExactStartPrice(inp, rows, y), RAdd(Num(1), RDiv(rows[y].growthRate, Num(100))))

Finished == pc = "done"

OptimalFinished == Finished /\ inputs.useOptimalExpenses

(***************************************************************************)
(* C1: for valid inputs the value returned by findOptimalAnnualExpenses is *)
(* feasible: no row of the projection run with it (the rows shown in       *)
(* optimal mode) has ltvRatio above maxLTV.                                *)
(***************************************************************************)
C1_OptimalExpensesFeasible ==
  (OptimalFinished /\ ValidInputs(inputs)) =>
    \A k \in 1..Len(results) : RLeq(Num(results[k].ltvRatio), inputs.maxLTV)

(***************************************************************************)
(* C2: the returned value is maximal up to the search precision: every     *)
(* expense level x with E + 101 < x <= bitcoinPrice * bitcoinAmount has a  *)
(* projection whose maximum ltvRatio exceeds maxLTV.                       *)
(***************************************************************************)
CandidateOffsets == {Rat(203, 2), Num(102), Num(125), Num(200), Num(1000), Num(25000)}

CandidateLevels ==
  {RAdd(Num(optimalExpenses), off) : off \in CandidateOffsets}
    \cup {RMul(inputs.bitcoinPrice, inputs.bitcoinAmount)}

AboveOptimum(x) ==
  /\ RLess(Num(optimalExpenses + 101), x)
  /\ RLeq(x, RMul(inputs.bitcoinPrice, inputs.bitcoinAmount))

C2_OptimalExpensesMaximal ==
  (OptimalFinished /\ ValidInputs(inputs)) =>
    \A x \in CandidateLevels :
      AboveOptimum(x) =>
        ~ MaxLTVWithin(calculateProjections([BaseInputs EXCEPT !.annualExpenses = x]),
                       inputs.maxLTV)

C2_Witness ==
  /\ OptimalFinished /\ ValidInputs(inputs)
  /\ optimalExpenses > 0
  /\ Cardinality({x \in CandidateLevels : AboveOptimum(x)}) >= 3

(***************************************************************************)
(* C3: for valid inputs calculateProjections returns exactly years rows,   *)
(* whose year fields are 1, 2, ..., years in order.                        *)
(***************************************************************************)
C3_OneRowPerYear ==
  (Finished /\ ValidInputs(inputs)) =>
    /\ Num(Len(results)) = inputs.years
    /\ \A k \in 1..Len(results) : results[k].year = k

C3_Witness ==
  /\ Finished /\ ValidInputs(inputs)
  /\ Len(results) >= 2
  /\ results[Len(results)].year = inputs.years.n

(***************************************************************************)
(* C4: in every row ltvRatio is totalDebt / (start-of-year price * amount) *)
(* * 100 rounded to a whole percent, portfolioValue and netWorth use the   *)
(* end-of-year price, and the two prices differ unless growthRate is 0.    *)
(***************************************************************************)
C4_LtvOnStartPrice ==
  (Finished /\ ValidInputs(inputs)) =>
    \A k \in 1..Len(results) :
      LET startPrice == ExactStartPrice(projInputs, results, k)
          endPrice   == ExactEndPrice(projInputs, results, k)
          debt       == ExactDebt(projInputs, k)
      IN  /\ results[k].ltvRatio =
               MathRound(RMul(RDiv(debt, RMul(startPrice, projInputs.bitcoinAmount)), Num(100)))
          /\ results[k].portfolioValue = MathRound(RMul(endPrice, projInputs.bitcoinAmount))
          /\ results[k].netWorth =
               MathRound(RSub(RMul(endPrice, projInputs.bitcoinAmount), debt))
          /\ (results[k].growthRate.n # 0 => startPrice # endPrice)

C4_Witness ==
  /\ Finished /\ ValidInputs(inputs)
  /\ \E k \in 1..Len(results) :
       /\ results[k].growthRate.n # 0
       /\ results[k].ltvRatio > 0
       /\ results[k].ltvRatio #
            MathRound(RMul(RDiv(ExactDebt(projInputs, k),
                                RMul(ExactEndPrice(projInputs, results, k),
                                     projInputs.bitcoinAmount)), Num(100)))

(***************************************************************************)
(* C5: each year interest accrues on the principal borrowed in earlier     *)
(* years, then the year's inflated expenses are borrowed; so year 1 has    *)
(* totalInterest 0 and totalBorrowed = annualExpenses, and amount 1, price *)
(* 100000, 1 year, rates 0, expenses 10000, growth 10 gives the row below. *)
(***************************************************************************)
RecurrenceExample ==
  [MakeInputs(1, 100000, 1, 0, 10, 10, 0, 50, FALSE, 10000) EXCEPT
     !.useOptimalExpenses = FALSE]

RecurrenceExampleRow ==
  [year |-> 1, growthRate |-> Num(10), bitcoinPriceStart |-> 100000,
   bitcoinPriceEnd |-> 110000, portfolioValue |-> 110000, totalBorrowed |-> 10000,
   totalInterest |-> 0, totalDebt |-> 10000, netWorth |-> 100000, ltvRatio |-> 10,
   annualExpenses |-> 10000]

C5_InterestBeforeBorrowing ==
  /\ (Finished /\ ValidInputs(inputs)) =>
       /\ \A k \in 1..Len(results) :
            /\ results[k].totalInterest = MathRound(ExactInterest(projInputs, k))
            /\ results[k].totalBorrowed = MathRound(ExactBorrowed(projInputs, k))
       /\ results[1].totalInterest = 0
       /\ results[1].totalBorrowed = MathRound(projInputs.annualExpenses)
  /\ (Finished /\ inputs = RecurrenceExample) => results = <<RecurrenceExampleRow>>

C5_Witness ==
  /\ Finished /\ ValidInputs(inputs)
  /\ Len(results) >= 2
  /\ inputs.interestRate.n > 0
  /\ results[1].totalBorrowed > 0
  /\ results[2].totalInterest > 0

(***************************************************************************)
(* C6: in every emitted row totalDebt = totalBorrowed + totalInterest and  *)
(* netWorth = portfolioValue - totalDebt on the rounded fields, within a   *)
(* tolerance of 1 currency unit.                                           *)
(***************************************************************************)
RowBalanced(row) ==
  /\ Abs(row.totalDebt - (row.totalBorrowed + row.totalInterest)) <= 1
  /\ Abs(row.netWorth - (row.portfolioValue - row.totalDebt)) <= 1

C6_DebtAndNetWorthIdentities ==
  /\ pc \in {"project", "done"} =>
       \A k \in 1..Len(proj.projections) : RowBalanced(proj.projections[k])
  /\ \A k \in 1..Len(results) : RowBalanced(results[k])

C6_Witness ==
  /\ Finished
  /\ \E k \in 1..Len(results) :
       /\ results[k].totalInterest > 0
       /\ results[k].totalDebt # results[k].totalBorrowed + results[k].totalInterest

(***************************************************************************)
(* C7: for valid inputs the emitted totalBorrowed and totalInterest never  *)
(* decrease from one row to the next.                                      *)
(***************************************************************************)
C7_DebtNeverShrinks ==
  (Finished /\ ValidInputs(inputs)) =>
    \A k \in 1..(Len(results) - 1) :
      /\ results[k].totalBorrowed <= results[k + 1].totalBorrowed
      /\ results[k].totalInterest <= results[k + 1].totalInterest

C7_Witness ==
  /\ Finished /\ ValidInputs(inputs)
  /\ Len(results) >= 3
  /\ results[2].totalBorrowed < results[3].totalBorrowed
  /\ results[2].totalInterest < results[3].totalInterest

(***************************************************************************)
(* C8: prices chain: the start price of year i+1 is the end price of year  *)
(* i, the start price of year 1 is the rounded input price, and each end   *)
(* price is the start price * (1 + growthRate/100) on the unrounded        *)
(* carried price.                                                          *)
(***************************************************************************)
C8_PricesChain ==
  (Finished /\ ValidInputs(inputs)) =>
    /\ results[1].bitcoinPriceStart = MathRound(inputs.bitcoinPrice)
    /\ \A k \in 1..(Len(results) - 1) :
         results[k + 1].bitcoinPriceStart = results[k].bitcoinPriceEnd
    /\ \A k \in 1..Len(results) :
         results[k].bitcoinPriceEnd = MathRound(ExactEndPrice(projInputs, results, k))

C8_Witness ==
  /\ Finished /\ ValidInputs(inputs)
  /\ Len(results) >= 3
  /\ ~ IsInteger(ExactEndPrice(projInputs, results, 1))
  /\ results[3].bitcoinPriceEnd #
       MathRound(RMul(Num(results[3].bitcoinPriceStart),
                      RAdd(Num(1), RDiv(results[3].growthRate, Num(100)))))

(***************************************************************************)
(* C9: generateGrowthRates gives rate(y) = terminalRate for y >= 10, else  *)
(* max(terminalRate, initialRate - ((initialRate - terminalRate)/9) *      *)
(* (y - 1)), rounded to 2 decimals; for initialRate >= terminalRate the    *)
(* schedule starts at initialRate, decreases linearly, reaches             *)
(* terminalRate in year 10 and stays there; (60, 15, 20) gives 60, 55,     *)
(* ..., 15 in year 10, then 15 for years 11..20.                           *)
(***************************************************************************)
ScheduleFinished == pc = "effect"

\* The rate of year y in hundredths of a percent, in integer arithmetic
\* (the rates of the schedule inputs are whole percents).
ExpectedHundredths(initial, terminal, y) ==
  IF y >= 10 THEN 100 * terminal
  ELSE LET ninths == 9 * initial - (initial - terminal) * (y - 1)
       IN  IF ninths <= 9 * terminal THEN 100 * terminal
           ELSE (200 * ninths + 9) \div 18

C9_ScheduleFormula ==
  ScheduleFinished =>
    LET initial  == inputs.initialGrowthRate.n
        terminal == inputs.terminalGrowthRate.n
    IN  /\ \A y \in 1..Len(growthRates) :
             growthRates[y].rate = Rat(ExpectedHundredths(initial, terminal, y), 100)
        /\ initial >= terminal =>
             /\ Len(growthRates) >= 1 => growthRates[1].rate = Num(initial)
             /\ \A y \in 1..(Len(growthRates) - 1) :
                  RLeq(growthRates[y + 1].rate, growthRates[y].rate)
             /\ \A y \in 10..Len(growthRates) : growthRates[y].rate = Num(terminal)
        /\ (initial = 60 /\ terminal = 15 /\ inputs.years = Num(20)) =>
             /\ Len(growthRates) = 20
             /\ \A y \in 1..20 :
                  growthRates[y].rate = Num(IF y < 10 THEN 60 - 5 * (y - 1) ELSE 15)

C9_Witness ==
  /\ ScheduleFinished
  /\ inputs.initialGrowthRate = Num(60)
  /\ inputs.terminalGrowthRate = Num(15)
  /\ inputs.years = Num(20)
  /\ growthRates[2].rate = Num(55)
  /\ growthRates[10].rate = Num(15)
  /\ growthRates[20].rate = Num(15)

(***************************************************************************)
(* C10: generateGrowthRates returns exactly years entries whose year       *)
(* fields are 1, 2, ..., years in order; years = 0 gives the empty         *)
(* sequence.                                                               *)
(***************************************************************************)
C10_ScheduleLength ==
  ScheduleFinished =>
    /\ Num(Len(growthRates)) = inputs.years
    /\ \A y \in 1..Len(growthRates) : growthRates[y].year = y
    /\ inputs.years = Num(0) => growthRates = <<>>

C10_Witness ==
  /\ ScheduleFinished
  /\ Len(growthRates) >= 10
  /\ growthRates[Len(growthRates)].year = inputs.years.n

(***************************************************************************)
(* C11: when initialRate <= terminalRate, generateGrowthRates returns the  *)
(* constant schedule: every entry's rate is terminalRate rounded to two    *)
(* decimals, from year 1 on; no entry lies below terminalRate or rises     *)
(* toward it.                                                              *)
(***************************************************************************)
C11_FlatWhenInitialNotAbove ==
  (ScheduleFinished /\ RLeq(inputs.initialGrowthRate, inputs.terminalGrowthRate)) =>
    \A y \in 1..Len(growthRates) :
      /\ growthRates[y].year = y
      /\ growthRates[y].rate =
           Rat(MathRound(RMul(inputs.terminalGrowthRate, Num(100))), 100)

C11_Witness ==
  /\ ScheduleFinished
  /\ RLess(inputs.initialGrowthRate, inputs.terminalGrowthRate)
  /\ Len(growthRates) >= 10
  /\ growthRates[1].rate = inputs.terminalGrowthRate
  /\ growthRates[1].rate # inputs.initialGrowthRate

(***************************************************************************)
(* C12 as stated: for all valid inputs, the projection run with            *)
(* annualExpenses = E + 1000, E the value findOptimalAnnualExpenses        *)
(* returned, has at least one row with ltvRatio > maxLTV.                  *)
(***************************************************************************)
ThousandAbove == RAdd(Num(optimalExpenses), Num(1000))

ThousandAboveInfeasible ==
  ~ MaxLTVWithin(calculateProjections([BaseInputs EXCEPT !.annualExpenses = ThousandAbove]),
                 inputs.maxLTV)

C12_ThousandAboveInfeasible_AllInputs ==
  (OptimalFinished /\ ValidInputs(inputs)) => ThousandAboveInfeasible

(***************************************************************************)
(* C12 amended: E + 1000 is infeasible whenever it lies within the search  *)
(* range (E + 1000 <= bitcoinPrice * bitcoinAmount) or maxLTV < 100.  With *)
(* maxLTV = 100 the search can end at its upper bound, the initial         *)
(* portfolio value, and levels above that bound may still be feasible.     *)
(***************************************************************************)
WithinSearchRange(x) == RLeq(x, RMul(inputs.bitcoinPrice, inputs.bitcoinAmount))

C12_ThousandAboveInfeasible ==
  (/\ OptimalFinished /\ ValidInputs(inputs)
   /\ (WithinSearchRange(ThousandAbove) \/ RLess(inputs.maxLTV, Num(100)))) =>
    ThousandAboveInfeasible

C12_Witness ==
  /\ OptimalFinished /\ ValidInputs(inputs)
  /\ optimalExpenses > 1000
  /\ inputs.maxLTV = Num(100)
  /\ WithinSearchRange(ThousandAbove)
  /\ ThousandAboveInfeasible
  /\ MaxLTVWithin(results, inputs.maxLTV)

(***************************************************************************)
(* C13 as stated: in every row the reported ltvRatio is at least the LTV   *)
(* of the same totalDebt against the end-of-year portfolio value           *)
(* (totalDebt / portfolioValue * 100, at the emitted whole-percent         *)
(* precision), for every growth-rate schedule the inputs allow.            *)
(***************************************************************************)
EndOfYearLtv(k) ==
  MathRound(RMul(RDiv(ExactDebt(projInputs, k),
                      RMul(ExactEndPrice(projInputs, results, k), inputs.bitcoinAmount)),
                 Num(100)))

ScheduleReturned == pc # "render"

OptimumReturned == inputs.useOptimalExpenses /\ pc \in {"project", "done"}

ProjectionsReturned == pc = "done"

C14_InvalidArgumentsRejected ==
  /\ ~ (IsInteger(inputs.years) /\ inputs.years.n >= 1) => ~ ScheduleReturned
  /\ OutOfRange(inputs) => ~ OptimumReturned /\ ~ ProjectionsReturned

(***************************************************************************)
(* C15: when the LTV denominator is zero (bitcoinAmount = 0 or             *)
(* bitcoinPrice = 0) calculateProjections guards the division and fails:   *)
(* it never emits a snapshot whose ltvRatio is NaN or an infinity.         *)
(***************************************************************************)
ZeroDenominator == inputs.bitcoinAmount.n = 0 \/ inputs.bitcoinPrice.n = 0

C15_ZeroDenominatorGuarded ==
  (ZeroDenominator /\ proj # NoCall) =>
    \A k \in 1..Len(proj.projections) :
      proj.projections[k].ltvRatio \notin {NaN, Infinity, NegInfinity}

(***************************************************************************)
(* C17: the core functions leave their arguments unchanged.  No step of    *)
(* generateGrowthRates, findOptimalAnnualExpenses or calculateProjections  *)
(* changes the input record; the schedule passed to the search and to the  *)
(* projection, and the record passed to calculateProjections, stay as they *)
(* were at the call; the search probes mid on a copy, so the record it was *)
(* given still holds the caller's annualExpenses after every probe.        *)
(***************************************************************************)
C17_ArgumentsUnchanged ==
  [][/\ inputs' = inputs
     /\ pc \in {"search", "project"} => growthRates' = growthRates
     /\ pc = "search" => BaseInputs' = BaseInputs
     /\ pc = "project" => projInputs' = projInputs]_vars

C17_Witness ==
  /\ OptimalFinished /\ ValidInputs(inputs)
  /\ search.low.n > 0
  /\ RLess(search.high, RMul(inputs.bitcoinPrice, inputs.bitcoinAmount))
  /\ Len(results) >= 2
  /\ optimalExpenses > 0
  /\ inputs.annualExpenses = Num(0)
  /\ projInputs.annualExpenses = Num(optimalExpenses)
  /\ projInputs.growthRates = growthRates

(***************************************************************************)
(* C18: binary-search invariant.  Before and after every iteration of      *)
(* findOptimalAnnualExpenses, low is 0 or a feasible expense level, high   *)
(* is the initial bound bitcoinPrice * bitcoinAmount or an infeasible      *)
(* level, and 0 <= low <= high <= bitcoinPrice * bitcoinAmount.            *)
(***************************************************************************)
\* The test of lines 95-98 applied to an expense level x.
Feasible(x) ==
  MaxLTVWithin(calculateProjections([BaseInputs EXCEPT !.annualExpenses = x]),
               EffectiveMaxLTV(BaseInputs))

InitialBound == RMul(inputs.bitcoinPrice, inputs.bitcoinAmount)

C18_SearchBracket ==
  pc = "search" =>
    /\ search.low = Num(0) \/ Feasible(search.low)
    /\ search.high = InitialBound \/ ~ Feasible(search.high)
    /\ RLeq(Num(0), search.low)
    /\ RLeq(search.low, search.high)
    /\ RLeq(search.high, InitialBound)

C18_Witness ==
  /\ pc = "search"
  /\ ~ SearchContinues(search)
  /\ search.low.n > 0 /\ Feasible(search.low)
  /\ RLess(search.high, InitialBound) /\ ~ Feasible(search.high)
  /\ RLess(search.low, search.high)

(***************************************************************************)
(* C19: termination of the search.  Each iteration halves high - low; the  *)
(* loop is left as soon as high - low <= 100 and not before; so the number *)
(* of iterations, each computing one projection, is the least k >= 0 with  *)
(* bitcoinPrice * bitcoinAmount / 2^k <= 100 (none when the initial        *)
(* portfolio value is at most 100): during the loop high - low is the      *)
(* initial bound halved at most that many times, and at the exit exactly   *)
(* that many times.                                                        *)
(***************************************************************************)
MaxHalvings == 12

Width(s) == RSub(s.high, s.low)

RECURSIVE Halved(_, _)
Halved(x, k) == IF k = 0 THEN x ELSE RDiv(Halved(x, k - 1), Num(2))

\* The least k >= 0 with bitcoinPrice * bitcoinAmount / 2^k <= PRECISION.
LeastHalvings ==
  CHOOSE k \in 0..MaxHalvings :
    /\ RLeq(Halved(InitialBound, k), Num(PRECISION))
    /\ \A j \in 0..(k - 1) : RLess(Num(PRECISION), Halved(InitialBound, j))

\* The number of iterations made so far, read off the width of the bracket.
IterationsMade(k) == Width(search) = Halved(InitialBound, k)

SearchLeft == pc = "project" /\ inputs.useOptimalExpenses

C19_HalvingStep ==
  (pc = "search" /\ pc' = "search") =>
    /\ RLess(Num(PRECISION), Width(search))
    /\ Width(search') = RDiv(Width(search), Num(2))

C19_ExitStep ==
  (pc = "search" /\ pc' # "search") =>
    /\ RLeq(Width(search), Num(PRECISION))
    /\ IterationsMade(LeastHalvings)

C19_SearchTerminates ==
  /\ [][C19_HalvingStep /\ C19_ExitStep]_vars
  /\ [](pc = "search" => \E k \in 0..LeastHalvings : IterationsMade(k))

C19_Witness ==
  /\ SearchLeft /\ ValidInputs(inputs)
  /\ LeastHalvings >= 10
  /\ IterationsMade(LeastHalvings)
  /\ RLeq(Width(search), Num(PRECISION))

(***************************************************************************)
(* C20: findOptimalAnnualExpenses returns the last feasible mid it tested, *)
(* rounded to the nearest integer.  That mid is the final low, so the      *)
(* result is the rounded final low; it is 0 when no tested mid was         *)
(* feasible or none was tested.                                            *)
(***************************************************************************)
C20_LastFeasibleMid ==
  [][/\ (pc = "search" /\ pc' = "search") =>
          IF Feasible(SearchMid(search))
          THEN search'.optimalExpenses = SearchMid(search)
          ELSE search'.optimalExpenses = search.optimalExpenses
     /\ pc' = "search" => search'.optimalExpenses = search'.low
     /\ (pc = "search" /\ pc' # "search") =>
          /\ optimalExpenses' = MathRound(search.optimalExpenses)
          /\ optimalExpenses' = MathRound(search.low)
          /\ search.low = Num(0) => optimalExpenses' = 0]_vars

C20_Witness ==
  /\ SearchLeft /\ ValidInputs(inputs)
  /\ ~ IsInteger(search.low)
  /\ RLess(search.high, InitialBound)
  /\ optimalExpenses = MathRound(search.low)
  /\ RLess(search.low, Num(optimalExpenses))

(***************************************************************************)
(* C21: growth-rate lookup.  For every year y that has an entry in the     *)
(* schedule, the growthRate emitted in the snapshot and used for the price *)
(* step is exactly that entry's rate, a rate of 0 included; the last entry *)
(* is used only when the schedule has no entry for year y.                 *)
(***************************************************************************)
HasEntry(schedule, y) == \E j \in 1..Len(schedule) : schedule[j].year = y

EntryRate(schedule, y) ==
  schedule[CHOOSE j \in 1..Len(schedule) : schedule[j].year = y].rate

C21_OwnEntryUsed ==
  Finished =>
    \A k \in 1..Len(results) :
      HasEntry(projInputs.growthRates, results[k].year) =>
        /\ results[k].growthRate = EntryRate(projInputs.growthRates, results[k].year)
        /\ results[k].bitcoinPriceEnd =
             MathRound(RMul(ExactStartPrice(projInputs, results, k),
                            RAdd(Num(1), RDiv(EntryRate(projInputs.growthRates, results[k].year),
                                              Num(100)))))

(***************************************************************************)
(* C22: rounding happens only when a snapshot is emitted.  The carried     *)
(* totalBorrowed, totalInterest, price and inflated expenses keep full     *)
(* precision from year to year, so each emitted field is the rounding of   *)
(* the exact recurrence value; the totalBorrowed of year n is the rounded  *)
(* sum of the unrounded expenses of years 1..n, not the sum of the emitted *)
(* annualExpenses.                                                         *)
(***************************************************************************)
RECURSIVE EmittedExpensesSum(_, _)
EmittedExpensesSum(rows, k) ==
  IF k = 0 THEN 0 ELSE EmittedExpensesSum(rows, k - 1) + rows[k].annualExpenses

C22_RoundedOnlyAtEmission ==
  (Finished /\ ValidInputs(inputs)) =>
    \A k \in 1..Len(results) :
      /\ results[k].annualExpenses = MathRound(ExpensesOfYear(projInputs, k))
      /\ results[k].totalBorrowed = MathRound(ExactBorrowed(projInputs, k))
      /\ results[k].totalInterest = MathRound(ExactInterest(projInputs, k))
      /\ results[k].totalDebt = MathRound(ExactDebt(projInputs, k))
      /\ results[k].bitcoinPriceStart = MathRound(ExactStartPrice(projInputs, results, k))
      /\ results[k].bitcoinPriceEnd = MathRound(ExactEndPrice(projInputs, results, k))
      /\ results[k].portfolioValue =
           MathRound(RMul(ExactEndPrice(projInputs, results, k), inputs.bitcoinAmount))

C22_Witness ==
  /\ Finished /\ ValidInputs(inputs)
  /\ \E k \in 1..Len(results) :
       /\ results[k].totalBorrowed = MathRound(ExactBorrowed(projInputs, k))
       /\ results[k].totalBorrowed # EmittedExpensesSum(results, k)
       /\ ~ IsInteger(ExpensesOfYear(projInputs, k))

(***************************************************************************)
(* C23 as stated: run side by side on the same inputs with interestRate >  *)
(* 0 and annualExpenses > 0, the canonical recurrence and the earlier      *)
(* recurrence emit different totalInterest and totalDebt already in year   *)
(* 1: 0 versus annualExpenses * interestRate / 100.                        *)
(***************************************************************************)
EarlierResults == EarlierCalculateProjections(projInputs)

FirstYearInterest == RMul(inputs.annualExpenses, RDiv(inputs.interestRate, Num(100)))

RevisionsCompared ==
  /\ Finished /\ ValidInputs(inputs)
  /\ inputs.interestRate.n > 0
  /\ inputs.annualExpenses.n > 0

FirstYearDiffers ==
  /\ results[1].totalInterest = 0
  /\ EarlierResults[1].totalInterest = MathRound(FirstYearInterest)
  /\ results[1].totalInterest # EarlierResults[1].totalInterest
  /\ results[1].totalDebt # EarlierResults[1].totalDebt

Succeeded(r) == calls[r].pc = "ended" /\ calls[r].cause = "ok"

Starts(r) == calls[r].pc = "idle" /\ calls'[r].pc # "idle"

C24_StartStep ==
  \A r \in Runs :
    Starts(r) =>
      /\ calls'[r].now = now
      /\ IF lastSuccessfulFetch # 0 /\ now - lastSuccessfulFetch < 60000
         THEN /\ calls'[r].pc = "limited"
              /\ calls'[r].outcome = "threw"
              /\ requests' = requests
              /\ lastSuccessfulFetch' = lastSuccessfulFetch
         ELSE /\ calls'[r].pc = "awaiting"
              /\ requests' = Append(requests, [run |-> r, at |-> now])

C24_LimitedStep ==
  \A r \in Runs :
    (calls[r].pc = "limited" /\ calls'[r].pc = "ended") =>
      /\ priceError' = "Rate limited: Please wait a minute between price refreshes"
      /\ requests' = requests
      /\ lastSuccessfulFetch' = lastSuccessfulFetch

C24_RecordStep ==
  lastSuccessfulFetch' # lastSuccessfulFetch =>
    \E r \in Runs :
      /\ ~ Succeeded(r) /\ Succeeded(r)'
      /\ lastSuccessfulFetch' = calls[r].now

C24_Cooldown == [][C24_StartStep /\ C24_LimitedStep /\ C24_RecordStep]_vars

C24_Witness ==
  /\ Succeeded(1) /\ calls[1].now = 1000
  /\ calls[2].pc = "ended" /\ calls[2].cause = "cooldown" /\ calls[2].now = 60999
  /\ calls[2].outcome = "threw"
  /\ lastSuccessfulFetch = 1000
  /\ Len(requests) = 1
  /\ priceError = RateLimitedMessage


(***************************************************************************)
(* C25: fetch failure handling.  When the request of a call fails (network *)
(* error, HTTP 429, other non-OK status, unreadable body) and no fetch has *)
(* succeeded, fetchBitcoinPrice returns the default price 100000 instead   *)
(* of throwing; when some fetch has succeeded, it rethrows and the caller  *)
(* keeps the previously fetched price.                                     *)
(***************************************************************************)
RequestFailed(r) ==
  calls[r].pc = "ended" /\ calls[r].cause \in RequestFailures \cup {"body"}

PreviouslyFetched ==
  \E q \in Runs : Succeeded(q) /\ inputs.bitcoinPrice = Num(calls[q].price)

C25_FailureStep ==
  \A r \in Runs :
    (~ RequestFailed(r) /\ RequestFailed(r)') =>
      IF lastSuccessfulFetch = 0
      THEN /\ calls'[r].outcome = "returned"
           /\ calls'[r].price = 100000
           /\ inputs'.bitcoinPrice = Num(100000)
      ELSE /\ calls'[r].outcome = "threw"
           /\ PreviouslyFetched => inputs'.bitcoinPrice = inputs.bitcoinPrice

C25_FailureKeepsPrice == [][C25_FailureStep]_vars


(***************************************************************************)
(* C26: price loading always completes.  Every run of updateBitcoinPrice   *)
(* that has started eventually ends, and the step that ends it leaves      *)
(* isFetchingPrice = FALSE, whether the fetch succeeded, failed or was     *)
(* rate-limited; once a run has ended inputs.bitcoinPrice is not null (it  *)
(* is a fetched price or 100000); and no optimal-expense search or         *)
(* projection runs or has produced anything while inputs.bitcoinPrice is   *)
(* null.                                                                   *)
(***************************************************************************)
Started(r) == calls[r].pc # "idle"

Ended(r) == calls[r].pc = "ended"

C26_EndStep ==
  \A r \in Runs : (~ Ended(r) /\ Ended(r)') => isFetchingPrice' = FALSE

C26_PriceAfterRun ==
  (\E r \in Runs : Ended(r)) =>
    /\ inputs.bitcoinPrice # Null
    /\ inputs.bitcoinPrice \in {Num(p) : p \in FetchedPrices \cup {100000}}

C26_NoComputationOnNull ==
  inputs.bitcoinPrice = Null =>
    /\ pc \notin {"search", "project"}
    /\ search = NoCall /\ projInputs = NoCall /\ proj = NoCall
    /\ results = <<>> /\ optimalExpenses = 0

C26_LoadingCompletes ==
  /\ [][C26_EndStep]_vars
  /\ [](C26_PriceAfterRun /\ C26_NoComputationOnNull)
  /\ \A r \in Runs : Started(r) ~> Ended(r)

C26_Witness ==
  /\ Succeeded(1)
  /\ Ended(2) /\ calls[2].cause = "cooldown"
  /\ isFetchingPrice = FALSE
  /\ inputs.bitcoinPrice = Num(100000)
  /\ pc = "done" /\ results # <<>>


(***************************************************************************)
(* C27: overlapping calls keep the cooldown.  No request is issued by a    *)
(* later call at a time less than 60000 ms after the start time of a fetch *)
(* that ends up successful, also when the later call starts while the      *)
(* earlier one is still awaiting its response.                             *)
(***************************************************************************)
WithinCooldownOf(request, r) ==
  /\ request.run > r
  /\ request.at >= calls[r].now
  /\ request.at - calls[r].now < 60000

C27_OverlapKeepsCooldown ==
  \A r \in Runs :
    Succeeded(r) =>
      \A k \in 1..Len(requests) : ~ WithinCooldownOf(requests[k], r)


(***************************************************************************)
(* C28: non-integer years.  For every non-negative years value the Years   *)
(* field can deliver, 0.5 and 2.5 included, calculateProjections on the    *)
(* schedule generateGrowthRates made for the same value completes without  *)
(* error and emits exactly as many snapshots as the schedule has entries,  *)
(* each year finding its own entry.                                        *)
(***************************************************************************)
C28_FractionalYears ==
  /\ pc # "error"
  /\ pc = "done" =>
       /\ Len(results) = Len(growthRates)
       /\ \A k \in 1..Len(results) : HasEntry(growthRates, results[k].year)


(***************************************************************************)
(* C29: years = 0.  The projection is empty and every tested expense level *)
(* is feasible, so for an initial portfolio value above 100 the optimizer  *)
(* returns a value within 100 of bitcoinPrice * bitcoinAmount, not 0.      *)
(* The returned value is the rounding of a level within 100 of the         *)
(* portfolio value: it is within 100.5 of it, and within 100 when the      *)
(* portfolio value is a whole number.                                      *)
(***************************************************************************)
ZeroYearsOptimum ==
  /\ OptimalFinished
  /\ inputs.years = Num(0)
  /\ RLess(Num(100), InitialBound)

Distance(a, b) == IF RLess(a, b) THEN RSub(b, a) ELSE RSub(a, b)

C29_ZeroYears_Hundred ==
  ZeroYearsOptimum =>
    /\ results = <<>>
    /\ optimalExpenses # 0
    /\ RLeq(Distance(InitialBound, Num(optimalExpenses)), Num(100))

C29_ZeroYears ==
  ZeroYearsOptimum =>
    /\ results = <<>>
    /\ optimalExpenses # 0
    /\ RLeq(Distance(InitialBound, search.optimalExpenses), Num(100))
    /\ optimalExpenses = MathRound(search.optimalExpenses)
    /\ RLeq(Distance(InitialBound, Num(optimalExpenses)), Rat(201, 2))
    /\ IsInteger(InitialBound) =>
         RLeq(Distance(InitialBound, Num(optimalExpenses)), Num(100))

C29_Witness ==
  /\ ZeroYearsOptimum
  /\ InitialBound = Rat(1996, 5)
  /\ optimalExpenses = 299


(***************************************************************************)
(* C30: the InputField never hands a non-number to the calculator state.   *)
(* After every sequence of change, focus and blur events on a numeric      *)
(* field, the value last passed to onChange, and with it the input stored  *)
(* in the calculator state, is a finite number, never NaN.                 *)
(***************************************************************************)
C30_OnlyNumbersDelivered ==
  /\ onChangeArg # NoCall => (IsFinite(onChangeArg) /\ onChangeArg # NaN)
  /\ IsFinite(inputs.years)

=============================================================================
